---- MODULE Spec2Model ----
(***************************************************************************)
(* Transform primitives of featuretools                                    *)
(* (featuretools/primitives/transform_primitive.py).                       *)
(*                                                                         *)
(* A client holds two primitive slots, p and q.  p is built from raw       *)
(* features, q from raw features and from p, get_name() is called on       *)
(* either, get_function() is taken from p and the function it returns is   *)
(* called on small arrays.  Every constructor call leaves its outcome in   *)
(* the slot: the instance, or the error it raised.                         *)
(*                                                                         *)
(* Optional Python values are sequences: <<>> is None / NaN / NaT, <<v>>   *)
(* is the value v.  Datetimes and timedeltas are integer milliseconds,     *)
(* <<ms>>; the numbers a unit or a division yields are fractions <<n, d>>  *)
(* in lowest terms.                                                        *)
(***************************************************************************)
EXTENDS Integers, Sequences, FiniteSets, TLC

VARIABLES p, q, names, fn, res, now

vars == <<p, q, names, fn, res, now>>

\* ---------------------------------------------------------------- bounds

\* Longest array handed to a computation function.
MaxLen == 3

\* Readings of the wall clock the model follows.
MaxClock == 2

\* get_name() calls recorded per slot.
MaxCalls == 2

\* ------------------------------------------------- variable-type taxonomy

Kinds ==
    {"Variable", "Numeric", "Boolean", "Discrete", "Categorical", "Ordinal", "Id",
     "Text", "Datetime", "TimeIndex", "DatetimeTimeIndex", "Timedelta"}

\* The base class of each variable kind (the taxonomy of the imported
\* featuretools.variable_types).
KindParent(k) ==
    CASE k \in {"Categorical", "Ordinal", "Id"} -> "Discrete"
      [] k = "DatetimeTimeIndex" -> "TimeIndex"
      [] k = "TimeIndex" -> "Datetime"
      [] OTHER -> "Variable"

RECURSIVE issubclass(_, _)
\* Python's issubclass(k, t) over the taxonomy.
issubclass(k, t) ==
    IF k = t THEN TRUE
    ELSE IF k = "Variable" THEN FALSE
    ELSE issubclass(KindParent(k), t)

\* ------------------------------------------------------------- features

\* A Feature node as a primitive sees it: entity, variable_type, expanding
\* and get_name() (<<>> when get_name() raises).
Feature(name, entity, kind, expanding) ==
    [name |-> <<name>>, entity |-> entity, variable_type |-> kind, expanding |-> expanding]

NoFeature == [name |-> <<>>, entity |-> "", variable_type |-> "", expanding |-> FALSE]

\* The raw columns of two entities.
RawFeatures ==
    {Feature("time", "A", "DatetimeTimeIndex", FALSE),
     Feature("time2", "A", "DatetimeTimeIndex", FALSE),
     Feature("date", "A", "Datetime", FALSE),
     Feature("id", "A", "Id", FALSE),
     Feature("amount", "A", "Numeric", FALSE),
     Feature("cat", "A", "Categorical", TRUE),
     Feature("note", "A", "Text", FALSE),
     Feature("dur", "A", "Timedelta", FALSE),
     Feature("flag", "A", "Boolean", TRUE),
     Feature("id", "B", "Id", FALSE),
     Feature("b_val", "B", "Numeric", FALSE)}

\* The columns the two-slot client works with.
ChainFeatures ==
    {f \in RawFeatures : f.name \in {<<"time">>, <<"time2">>, <<"amount">>, <<"cat">>}
                         \/ (f.name = <<"id">> /\ f.entity = "A")}

\* ---------------------------------------------------------- the classes

DatetimeUnits == {"Day", "Hour", "Second", "Minute", "Week", "Month", "Year", "Weekday"}

TimedeltaUnits == {"Days", "Hours", "Seconds", "Minutes", "Weeks", "Months", "Years"}

UnitBases == {"DatetimeUnitBasePrimitive", "TimedeltaUnitBasePrimitive"}

Classes ==
    {"IsNull", "Absolute", "TimeSincePrevious", "Weekend", "TimeSince", "DaysSince",
     "IsIn", "Diff", "Not", "Percentile"} \cup UnitBases \cup DatetimeUnits \cup TimedeltaUnits

\* The class a class statement derives from.
BaseClass(cls) ==
    CASE cls \in DatetimeUnits -> "DatetimeUnitBasePrimitive"
      [] cls \in TimedeltaUnits -> "TimedeltaUnitBasePrimitive"
      [] OTHER -> "TransformPrimitive"

\* The class attribute `name` a class body sets (<<>> is None).
OwnName(cls) ==
    CASE cls = "IsNull" -> <<"is_null">>
      [] cls = "Absolute" -> <<"absolute">>
      [] cls = "TimeSincePrevious" -> <<"time_since_previous">>
      [] cls = "Day" -> <<"day">>
      [] cls = "Days" -> <<"days">>
      [] cls = "Hour" -> <<"hour">>
      [] cls = "Hours" -> <<"hours">>
      [] cls = "Second" -> <<"second">>
      [] cls = "Seconds" -> <<"seconds">>
      [] cls = "Minute" -> <<"minute">>
      [] cls = "Minutes" -> <<"minutes">>
      [] cls = "Week" -> <<"week">>
      [] cls = "Weeks" -> <<"weeks">>
      [] cls = "Month" -> <<"month">>
      [] cls = "Months" -> <<"months">>
      [] cls = "Year" -> <<"year">>
      [] cls = "Years" -> <<"years">>
      [] cls = "Weekend" -> <<"is_weekend">>
      [] cls = "Weekday" -> <<"weekday">>
      [] cls = "TimeSince" -> <<"time_since">>
      [] cls = "DaysSince" -> <<"days_since">>
      [] cls = "IsIn" -> <<"isin">>
      [] cls = "Diff" -> <<"diff">>
      [] cls = "Not" -> <<"not">>
      [] cls = "Percentile" -> <<"percentile">>
      [] OTHER -> <<>>

\* The class attribute input_types where the class body sets it: the
\* alternative contracts, each a sequence of kinds (<<>> where it is inherited).
OwnInputTypes(cls) ==
    CASE cls \in {"IsNull", "IsIn"} -> << <<"Variable">> >>
      [] cls \in {"Absolute", "Percentile"} -> << <<"Numeric">> >>
      [] cls = "TimeSincePrevious" -> << <<"DatetimeTimeIndex", "Id">> >>
      [] cls \in {"DatetimeUnitBasePrimitive", "Weekend"} -> << <<"Datetime">> >>
      [] cls = "TimedeltaUnitBasePrimitive" -> << <<"Timedelta">> >>
      [] cls = "TimeSince" -> << <<"DatetimeTimeIndex">>, <<"Datetime">> >>
      [] cls = "DaysSince" -> << <<"DatetimeTimeIndex">> >>
      [] cls = "Diff" -> << <<"Numeric", "Id">> >>
      [] cls = "Not" -> << <<"Boolean">> >>
      [] OTHER -> <<>>

\* The class attribute return_type where the class body sets it ("" where
\* it is inherited).
OwnReturnType(cls) ==
    CASE cls \in {"IsNull", "Weekend", "IsIn", "Not"} -> "Boolean"
      [] cls \in {"Absolute", "TimeSincePrevious", "TimedeltaUnitBasePrimitive",
                  "DaysSince", "Diff", "Percentile"} -> "Numeric"
      [] cls = "DatetimeUnitBasePrimitive" -> "Ordinal"
      [] cls = "TimeSince" -> "Timedelta"
      [] OTHER -> ""

\* Attribute lookup through the class hierarchy.
input_types(cls) ==
    IF OwnInputTypes(cls) # <<>> THEN OwnInputTypes(cls) ELSE OwnInputTypes(BaseClass(cls))

return_type(cls) ==
    IF OwnReturnType(cls) # "" THEN OwnReturnType(cls) ELSE OwnReturnType(BaseClass(cls))

\* ------------------------------------------------------- construction

EntityMismatch == "More than one entity for base features"

NotDiscrete == "group_feature must have a discrete variable_type"

TypeContractViolation == "Provided inputs don't match input type requirements"

\* list_of_outputs values: None, or a list of integers.
NoneList == [none |-> TRUE, items |-> <<>>]

List(items) == [none |-> FALSE, items |-> items]

\* A slot before any constructor call.
NoInst ==
    [cls |-> "", args |-> <<>>, lo |-> NoneList, outcome |-> "none",
     base_features |-> <<>>, entity |-> "", expanding |-> FALSE,
     list_of_outputs |-> NoneList, group_feature |-> NoFeature, name_memo |-> <<>>]

\* The object a constructor call starts from: the class defaults of
\* PrimitiveBase (expanding False, no memoized name).
NewObject(cls, args, lo) ==
    [NoInst EXCEPT !.cls = cls, !.args = args, !.lo = lo, !.outcome = "ok"]

Raise(self, error) == [self EXCEPT !.outcome = error]

\* Whether the base features satisfy one of the declared contracts, position
\* by position, by subtype.
check_input_types(cls, base_features) ==
    \E k \in 1..Len(input_types(cls)) :
        LET t == input_types(cls)[k]
        IN  /\ Len(base_features) <= Len(t)
            /\ \A i \in 1..Len(base_features) :
                   issubclass(base_features[i].variable_type, t[i])

\* PrimitiveBase.__init__(entity, base_features): fixes the owning entity and
\* validates the base features against input_types.
PrimitiveBase_init(self, entity, base_features) ==
    IF ~check_input_types(self.cls, base_features)
    THEN Raise(self, TypeContractViolation)
    ELSE [self EXCEPT !.entity = entity, !.base_features = base_features]

\* TransformPrimitive.__init__ asserting only that the base features have some
\* entity (>= 1 in place of == 1).
TransformPrimitive_init_AnyEntity(self, base_features) ==
    LET s1 == [self EXCEPT !.base_features = base_features]
        s2 == IF \E i \in 1..Len(base_features) : base_features[i].expanding
              THEN [s1 EXCEPT !.expanding = TRUE]
              ELSE s1
    IN  IF Cardinality({base_features[i].entity : i \in 1..Len(base_features)}) < 1
        THEN Raise(s2, EntityMismatch)
        ELSE PrimitiveBase_init(s2, base_features[1].entity, base_features)

\* TransformPrimitive.__init__ that fixes the entity itself and never calls
\* the base constructor.
TransformPrimitive_init_NoSuper(self, base_features) ==
    LET s1 == [self EXCEPT !.base_features = base_features]
        s2 == IF \E i \in 1..Len(base_features) : base_features[i].expanding
              THEN [s1 EXCEPT !.expanding = TRUE]
              ELSE s1
    IN  IF Cardinality({base_features[i].entity : i \in 1..Len(base_features)}) # 1
        THEN Raise(s2, EntityMismatch)
        ELSE [s2 EXCEPT !.entity = base_features[1].entity]

\* TransformPrimitive.__init__ without the propagation of expanding.
TransformPrimitive_init_NoExpanding(self, base_features) ==
    LET s1 == [self EXCEPT !.base_features = base_features]
    IN  IF Cardinality({base_features[i].entity : i \in 1..Len(base_features)}) # 1
        THEN Raise(s1, EntityMismatch)
        ELSE PrimitiveBase_init(s1, base_features[1].entity, base_features)

\* TransformPrimitive.__init__(*base_features).
TransformPrimitive_init(self, base_features) ==
    LET s1 == [self EXCEPT !.base_features = base_features]
        s2 == IF \E i \in 1..Len(base_features) : base_features[i].expanding
              THEN [s1 EXCEPT !.expanding = TRUE]
              ELSE s1
    IN  IF Cardinality({base_features[i].entity : i \in 1..Len(base_features)}) # 1
        THEN Raise(s2, EntityMismatch)
        ELSE PrimitiveBase_init(s2, base_features[1].entity, base_features)

\* TimeSincePrevious.__init__ asserting the declared Id kind in place of Discrete.
TimeSincePrevious_init_IdOnly(self, time_index, group_feature) ==
    IF ~issubclass(group_feature.variable_type, "Id")
    THEN Raise(self, NotDiscrete)
    ELSE TransformPrimitive_init([self EXCEPT !.group_feature = group_feature],
                                 <<time_index, group_feature>>)

\* TimeSincePrevious.__init__(time_index, group_feature).
TimeSincePrevious_init(self, time_index, group_feature) ==
    IF ~issubclass(group_feature.variable_type, "Discrete")
    THEN Raise(self, NotDiscrete)
    ELSE TransformPrimitive_init([self EXCEPT !.group_feature = group_feature],
                                 <<time_index, group_feature>>)

\* Diff.__init__(base_feature, group_feature).
Diff_init(self, base_feature, group_feature) ==
    TransformPrimitive_init([self EXCEPT !.group_feature = group_feature],
                            <<base_feature, group_feature>>)

\* IsIn.__init__(base_feature, list_of_outputs=None).
IsIn_init(self, base_feature, list_of_outputs) ==
    TransformPrimitive_init([self EXCEPT !.list_of_outputs = list_of_outputs],
                            <<base_feature>>)

\* cls(*args): the instance, or the error the constructor raised.
Construct(cls, args, lo) ==
    LET self == NewObject(cls, args, lo)
    IN  CASE cls = "TimeSincePrevious" -> TimeSincePrevious_init(self, args[1], args[2])
          [] cls = "Diff" -> Diff_init(self, args[1], args[2])
          [] cls = "IsIn" -> IsIn_init(self, args[1], lo)
          [] OTHER -> TransformPrimitive_init(self, args)

\* The argument lists a constructor's signature accepts.
ArgLists(cls, U) ==
    CASE cls \in {"TimeSincePrevious", "Diff"} -> {<<a, b>> : a \in U, b \in U}
      [] cls = "IsIn" -> {<<a>> : a \in U}
      [] OTHER -> {<<>>} \cup {<<a>> : a \in U} \cup {<<a, b>> : a \in U, b \in U}

\* The membership lists a client passes to IsIn.
ListArgs(cls) ==
    IF cls = "IsIn" THEN {NoneList, List(<<>>), List(<<1, 3>>), List(<<2>>)} ELSE {NoneList}

\* -------------------------------------------------------------- naming

\* str.upper() on the names the classes carry.
upper(s) ==
    CASE s = "is_null" -> "IS_NULL"
      [] s = "absolute" -> "ABSOLUTE"
      [] s = "time_since_previous" -> "TIME_SINCE_PREVIOUS"
      [] s = "day" -> "DAY"
      [] s = "days" -> "DAYS"
      [] s = "hour" -> "HOUR"
      [] s = "hours" -> "HOURS"
      [] s = "second" -> "SECOND"
      [] s = "seconds" -> "SECONDS"
      [] s = "minute" -> "MINUTE"
      [] s = "minutes" -> "MINUTES"
      [] s = "week" -> "WEEK"
      [] s = "weeks" -> "WEEKS"
      [] s = "month" -> "MONTH"
      [] s = "months" -> "MONTHS"
      [] s = "year" -> "YEAR"
      [] s = "years" -> "YEARS"
      [] s = "is_weekend" -> "IS_WEEKEND"
      [] s = "weekday" -> "WEEKDAY"
      [] s = "time_since" -> "TIME_SINCE"
      [] s = "days_since" -> "DAYS_SINCE"
      [] s = "isin" -> "ISIN"
      [] s = "diff" -> "DIFF"
      [] s = "not" -> "NOT"
      [] s = "percentile" -> "PERCENTILE"
      [] OTHER -> s

\* str() of a small integer.
IntStr(n) ==
    CASE n = 0 -> "0" [] n = 1 -> "1" [] n = 2 -> "2" [] n = 3 -> "3" [] n = 4 -> "4"
      [] n = 5 -> "5" [] n = 6 -> "6" [] n = 7 -> "7" [] n = 8 -> "8" [] OTHER -> "9"

RECURSIVE join(_, _)
\* sep.join(strs)
join(sep, strs) ==
    IF strs = <<>> THEN ""
    ELSE IF Len(strs) = 1 THEN strs[1]
    ELSE strs[1] \o sep \o join(sep, Tail(strs))

\* str(list_of_outputs)
ListStr(lo) ==
    IF lo.none THEN "None"
    ELSE "[" \o join(", ", [i \in 1..Len(lo.items) |-> IntStr(lo.items[i])]) \o "]"

\* TransformPrimitive._get_name that leaves the base features out.
TransformPrimitive_get_name_NoBases(self) ==
    IF OwnName(self.cls) = <<>> THEN <<>>
    ELSE << upper(OwnName(self.cls)[1]) \o "()" >>

\* TransformPrimitive._get_name: NAME(base, base, ...); <<>> when it raises
\* (name is None, or a base feature's get_name() raises).
TransformPrimitive_get_name(self) ==
    IF OwnName(self.cls) = <<>> THEN <<>>
    ELSE IF \E i \in 1..Len(self.base_features) : self.base_features[i].name = <<>> THEN <<>>
    ELSE << upper(OwnName(self.cls)[1]) \o "("
            \o join(", ", [i \in 1..Len(self.base_features) |-> self.base_features[i].name[1]])
            \o ")" >>

\* TimeSincePrevious._get_name
TimeSincePrevious_get_name(self) ==
    IF self.group_feature.name = <<>> THEN <<>>
    ELSE << "time_since_previous_by_" \o self.group_feature.name[1] >>

\* Diff._get_name
Diff_get_name(self) ==
    IF self.base_features[1].name = <<>> \/ self.group_feature.name = <<>> THEN <<>>
    ELSE << upper(OwnName(self.cls)[1]) \o "("
            \o self.base_features[1].name[1] \o " by " \o self.group_feature.name[1] \o ")" >>

\* IsIn._get_name
IsIn_get_name(self) ==
    IF self.base_features[1].name = <<>> THEN <<>>
    ELSE << self.base_features[1].name[1] \o ".isin(" \o ListStr(self.list_of_outputs) \o ")" >>

\* Not._get_name
Not_get_name(self) ==
    IF self.base_features[1].name = <<>> THEN <<>>
    ELSE << "NOT(" \o self.base_features[1].name[1] \o ")" >>

\* self._get_name(), dispatched on the class.
get_name_rule(self) ==
    CASE self.cls = "TimeSincePrevious" -> TimeSincePrevious_get_name(self)
      [] self.cls = "Diff" -> Diff_get_name(self)
      [] self.cls = "IsIn" -> IsIn_get_name(self)
      [] self.cls = "Not" -> Not_get_name(self)
      [] OTHER -> TransformPrimitive_get_name(self)

\* PrimitiveBase.get_name(): the memoized name, or the freshly computed one.
get_name(self) ==
    IF self.name_memo # <<>> THEN self.name_memo ELSE get_name_rule(self)

\* A constructed primitive, used as a base feature of another.
FeatureOf(self) ==
    [name |-> get_name(self), entity |-> self.entity,
     variable_type |-> return_type(self.cls), expanding |-> self.expanding]

\* -------------------------------------------------- computation functions

NaN == <<>>

RECURSIVE GCD(_, _)
GCD(a, b) == IF b = 0 THEN a ELSE GCD(b, a % b)

\* n / d (d > 0) as a fraction in lowest terms.
Frac(n, d) ==
    LET g == GCD(IF n < 0 THEN -n ELSE n, d)
    IN  <<n \div g, d \div g>>

\* Timedelta.days: whole days, rounded down.
td_days(ms) == ms \div 86400000

\* Timedelta.seconds: the seconds component, the whole seconds left over
\* after the days.
td_seconds(ms) == (ms % 86400000) \div 1000

\* Timedelta.total_seconds()
total_seconds(ms) == Frac(ms, 1000)

\* The attributes of a TimedeltaIndex that pd_time_unit is asked for.
TimedeltaIndexAttrs == {"days", "seconds"}

\* pd_time_unit(time_unit)(pd.TimedeltaIndex(array)): getattr of the index.
pd_time_unit(time_unit, array) ==
    IF time_unit = <<>> THEN [outcome |-> "TypeError", value |-> <<>>]
    ELSE IF time_unit[1] \notin TimedeltaIndexAttrs
    THEN [outcome |-> "AttributeError", value |-> <<>>]
    ELSE [outcome |-> "ok",
          value |-> IF time_unit[1] = "days"
                    THEN [i \in 1..Len(array) |->
                             IF array[i] = NaN THEN NaN ELSE <<td_days(array[i][1]), 1>>]
                    ELSE [i \in 1..Len(array) |->
                             IF array[i] = NaN THEN NaN ELSE <<td_seconds(array[i][1]), 1>>]]

\* array / d and array * (n / d) on an integer array.
Scale(r, n, d) ==
    IF r.outcome # "ok" THEN r
    ELSE [r EXCEPT !.value = [i \in 1..Len(r.value) |->
                                  IF r.value[i] = NaN THEN NaN
                                  ELSE Frac(r.value[i][1] * n, r.value[i][2] * d)]]

\* The function get_function() returns for a Timedelta unit class.  The
\* divisions are true divisions (Years' "/ 365" on an integer array too, as
\* under Python 3).
TimedeltaUnit_function(cls, array) ==
    CASE cls = "Hours" -> Scale(pd_time_unit(<<"seconds">>, array), 1, 3600)
      [] cls = "Minutes" -> Scale(pd_time_unit(<<"seconds">>, array), 1, 60)
      [] cls = "Weeks" -> Scale(pd_time_unit(<<"days">>, array), 1, 7)
      [] cls = "Months" -> Scale(pd_time_unit(<<"days">>, array), 12, 365)
      [] cls = "Years" -> Scale(pd_time_unit(<<"days">>, array), 1, 365)
      [] OTHER -> pd_time_unit(OwnName(cls), array)

\* The names the module object bound by `import datetime` has.
DatetimeModuleAttrs ==
    {"MINYEAR", "MAXYEAR", "date", "datetime", "time", "timedelta", "timezone", "tzinfo"}

\* The datetime the wall clock shows at its n-th reading.
WallClock(n) == 86400000 + 1000 * n

\* datetime.now(), with `datetime` the module.
datetime_now(clock) ==
    IF "now" \in DatetimeModuleAttrs
    THEN [outcome |-> "ok", value |-> <<WallClock(clock)>>]
    ELSE [outcome |-> "AttributeError", value |-> <<>>]

\* time - pd.DatetimeIndex(array)
TimeMinus(time, array) ==
    [i \in 1..Len(array) |-> IF array[i] = NaN THEN NaN ELSE <<time - array[i][1]>>]

\* pd_time_since(array, time)
pd_time_since(array, time, clock) ==
    LET t == IF time = <<>> THEN datetime_now(clock) ELSE [outcome |-> "ok", value |-> time]
    IN  IF t.outcome # "ok" THEN t
        ELSE [outcome |-> "ok", value |-> TimeMinus(t.value[1], array)]

\* pd_days_since(array, time)
pd_days_since(array, time, clock) ==
    LET t == IF time = <<>> THEN datetime_now(clock) ELSE [outcome |-> "ok", value |-> time]
    IN  IF t.outcome # "ok" THEN t
        ELSE pd_time_unit(<<"days">>, TimeMinus(t.value[1], array))

\* The rows of one group, in row order.
GroupRows(group_array, key) ==
    SelectSeq([i \in 1..Len(group_array) |-> i], LAMBDA i : group_array[i] = key)

\* Series.diff() within one group: the first row has no predecessor.
DiffRows(base_array, rows) ==
    [m \in 1..Len(rows) |->
        IF m = 1 \/ base_array[rows[m]] = NaN \/ base_array[rows[m - 1]] = NaN
        THEN NaN
        ELSE <<base_array[rows[m]][1] - base_array[rows[m - 1]][1]>>]

\* DataFrame.diff() without the groupby: each row against the row before it.
ungrouped_diff(base_array, group_array) ==
    DiffRows(base_array, [i \in 1..Len(base_array) |-> i])

\* DataFrame.groupby(groupby).diff()[bf_name]: each group's diff, put back at
\* the rows it came from.
grouped_diff(base_array, group_array) ==
    [i \in 1..Len(base_array) |->
        LET rows == GroupRows(group_array, group_array[i])
            m == CHOOSE m \in 1..Len(rows) : rows[m] = i
        IN  DiffRows(base_array, rows)[m]]

\* Diff's pd_diff(base_array, group_array)
Diff_pd_diff(base_array, group_array) ==
    [outcome |-> "ok", value |-> grouped_diff(base_array, group_array)]

\* TimeSincePrevious's pd_diff(base_array, group_array)
TimeSincePrevious_pd_diff(base_array, group_array) ==
    LET diffs == grouped_diff(base_array, group_array)
    IN  [outcome |-> "ok",
         value |-> [i \in 1..Len(diffs) |->
                        IF diffs[i] = NaN THEN NaN ELSE total_seconds(diffs[i][1])]]

\* pd_is_in(array, list_of_outputs): Series.isin
pd_is_in(array, list_of_outputs) ==
    LET items == IF list_of_outputs.none THEN <<>> ELSE list_of_outputs.items
    IN  [outcome |-> "ok",
         value |-> [i \in 1..Len(array) |->
                        array[i] # NaN /\ \E k \in 1..Len(items) : items[k] = array[i][1]]]

\* get_function() whose function defaults its second parameter to None.
get_function_DefaultNone(self) == [cls |-> self.cls, list_of_outputs |-> NoneList]

\* self.get_function(): the closure; IsIn binds self.list_of_outputs as the
\* default of the function's second parameter.
get_function(self) == [cls |-> self.cls, list_of_outputs |-> self.list_of_outputs]

\* f(a, b) or, for IsIn, f(a) and f(a, extra); extra is <<>> when the second
\* argument is left to its default.
Apply(f, a, b, extra, clock) ==
    CASE f.cls = "IsIn" -> pd_is_in(a, IF extra = <<>> THEN f.list_of_outputs ELSE extra[1])
      [] f.cls = "Diff" -> Diff_pd_diff(a, b)
      [] f.cls = "TimeSincePrevious" -> TimeSincePrevious_pd_diff(a, b)
      [] f.cls = "TimeSince" -> pd_time_since(a, b, clock)
      [] f.cls = "DaysSince" -> pd_days_since(a, b, clock)
      [] OTHER -> TimedeltaUnit_function(f.cls, a)

\* ------------------------------------------------------ client actions

NoCalls == [p |-> <<>>, q |-> <<>>]

NoFn == [cls |-> "", list_of_outputs |-> NoneList]

NoRes == [cls |-> "", a |-> <<>>, b |-> <<>>, extra |-> <<>>, outcome |-> "none",
          value |-> <<>>, at |-> 0, calls |-> 0]

\* p = cls(*args) over the columns U, the client's first statement.
MakeP(U) ==
    /\ p.outcome = "none"
    /\ \E cls \in Classes : \E args \in ArgLists(cls, U) : \E lo \in ListArgs(cls) :
           p' = Construct(cls, args, lo)
    /\ q' = NoInst
    /\ names' = NoCalls
    /\ fn' = NoFn
    /\ res' = NoRes
    /\ UNCHANGED now

\* q = cls(*args) over the columns U and the feature p.
MakeQ(U) ==
    /\ p.outcome = "ok"
    /\ q.outcome = "none"
    /\ \E cls \in Classes : \E args \in ArgLists(cls, U \cup {FeatureOf(p)}) :
           \E lo \in ListArgs(cls) :
               q' = Construct(cls, args, lo)
    /\ names' = [names EXCEPT !.q = <<>>]
    /\ UNCHANGED <<p, fn, res, now>>

\* p.get_name()
GetNameP ==
    /\ p.outcome = "ok"
    /\ Len(names.p) < MaxCalls
    /\ names' = [names EXCEPT !.p = Append(@, get_name(p))]
    /\ p' = [p EXCEPT !.name_memo = get_name(p)]
    /\ UNCHANGED <<q, fn, res, now>>

\* q.get_name()
GetNameQ ==
    /\ q.outcome = "ok"
    /\ Len(names.q) < MaxCalls
    /\ names' = [names EXCEPT !.q = Append(@, get_name(q))]
    /\ q' = [q EXCEPT !.name_memo = get_name(q)]
    /\ UNCHANGED <<p, fn, res, now>>

\* The classes whose computation functions the client calls.
CalcClasses ==
    {"IsIn", "Diff", "TimeSincePrevious", "TimeSince", "DaysSince",
     "TimedeltaUnitBasePrimitive"} \cup TimedeltaUnits

\* The columns the client computes on.
CalcFeatures ==
    {f \in RawFeatures : f.entity = "A" /\ f.name \in {<<"time">>, <<"id">>, <<"amount">>, <<"dur">>}}

\* Arrays of at most MaxLen values drawn from S.
Arrays(S) == UNION {[1..n -> S] : n \in 0..MaxLen}

NumericValues == {NaN, <<1>>, <<4>>}

DatetimeValues == {<<0>>, <<1500>>, <<86400000>>}

Durations == {<<1500>>, <<3600000>>, <<86400000>>, <<90000000>>, <<604800000>>}

MemberValues == {<<1>>, <<2>>, <<3>>}

GroupKeys == {1, 2}

\* The arguments a client calls the function of a cls instance with.
CallArgs(cls) ==
    CASE cls = "IsIn" ->
             {[a |-> a, b |-> <<>>, extra |-> e] :
                 a \in Arrays(MemberValues),
                 e \in {<<>>, <<NoneList>>, <<List(<<2>>)>>, <<List(<<1, 3>>)>>}}
      [] cls = "Diff" ->
             {[a |-> a, b |-> b, extra |-> <<>>] :
                 a \in Arrays(NumericValues), b \in Arrays(GroupKeys)}
      [] cls = "TimeSincePrevious" ->
             {[a |-> a, b |-> b, extra |-> <<>>] :
                 a \in Arrays(DatetimeValues), b \in Arrays(GroupKeys)}
      [] cls \in {"TimeSince", "DaysSince"} ->
             {[a |-> a, b |-> t, extra |-> <<>>] :
                 a \in Arrays(DatetimeValues), t \in {<<>>, <<86400000>>, <<90000000>>}}
      [] OTHER -> {[a |-> a, b |-> <<>>, extra |-> <<>>] : a \in Arrays(Durations)}

\* The outcome of one call, as the client records it.
CallResult(f, args, calls, clock) ==
    LET r == Apply(f, args.a, args.b, args.extra, clock)
    IN  [cls |-> f.cls, a |-> args.a, b |-> args.b, extra |-> args.extra,
         outcome |-> r.outcome, value |-> r.value, at |-> clock, calls |-> calls]

\* f = p.get_function()
GetFunction ==
    /\ p.outcome = "ok"
    /\ p.cls \in CalcClasses
    /\ fn' = get_function(p)
    /\ UNCHANGED <<p, q, names, res, now>>

\* f(...) for the first time, on arrays of equal length.
Call ==
    /\ fn.cls # ""
    /\ res.outcome = "none"
    /\ \E args \in CallArgs(fn.cls) :
           /\ fn.cls \in {"Diff", "TimeSincePrevious"} => Len(args.a) = Len(args.b)
           /\ res' = CallResult(fn, args, 1, now)
    /\ UNCHANGED <<p, q, names, fn, now>>

\* f(...) again, with the arguments of the call before.
Recall ==
    /\ fn.cls # ""
    /\ res.outcome # "none"
    /\ res.calls < MaxCalls
    /\ res' = CallResult(fn, res, res.calls + 1, now)
    /\ UNCHANGED <<p, q, names, fn, now>>

\* The wall clock moves on.
Tick ==
    /\ now < MaxClock
    /\ now' = now + 1
    /\ UNCHANGED <<p, q, names, fn, res>>

Init ==
    /\ p = NoInst
    /\ q = NoInst
    /\ names = NoCalls
    /\ fn = NoFn
    /\ res = NoRes
    /\ now = 0

\* One constructor call over all raw columns.
Next == MakeP(RawFeatures)

Spec == Init /\ [][Next]_vars

\* Two primitives, the second built on the first, and their names.
NextChain ==
    \/ MakeP(ChainFeatures)
    \/ MakeQ(ChainFeatures)
    \/ GetNameP
    \/ GetNameQ

SpecChain == Init /\ [][NextChain]_vars

\* One primitive, its computation function, and calls of it.
NextCalc ==
    \/ MakeP(CalcFeatures)
    \/ GetFunction
    \/ Call
    \/ Recall
    \/ Tick

SpecCalc == Init /\ [][NextCalc]_vars

\* ------------------------------------------------------------- claims

Attempted(x) == x.outcome # "none"

Built(x) == x.outcome = "ok"

\* Base features of more than one entity.
MixedEntities(args) ==
    \E i, j \in 1..Len(args) : args[i].entity # args[j].entity

\* One or more base features, all of one entity.
OneEntity(args) ==
    /\ Len(args) >= 1
    /\ \A i, j \in 1..Len(args) : args[i].entity = args[j].entity

DiscreteKinds == {"Discrete", "Categorical", "Ordinal", "Id"}

\* C1 as stated: whatever the primitive type, base features of more than one
\* entity make the constructor fail with the entity-mismatch error, and base
\* features of one entity never raise it.
C1_Original ==
    Attempted(p) =>
        /\ MixedEntities(p.args) => p.outcome = EntityMismatch
        /\ OneEntity(p.args) => p.outcome # EntityMismatch

\* C1 amended: base features of more than one entity always make the
\* constructor fail and produce no instance; the error is the entity-mismatch
\* error, except for TimeSincePrevious with a grouping feature that is not
\* Discrete, which fails its own kind check first; base features of one
\* entity never raise the entity-mismatch error.
C1_EntityMismatch ==
    Attempted(p) =>
        /\ MixedEntities(p.args) =>
               /\ ~Built(p)
               /\ IF p.cls = "TimeSincePrevious"
                     /\ p.args[2].variable_type \notin DiscreteKinds
                  THEN p.outcome = NotDiscrete
                  ELSE p.outcome = EntityMismatch
        /\ OneEntity(p.args) => p.outcome # EntityMismatch

C1_Witness ==
    /\ p.cls = "TimeSincePrevious"
    /\ MixedEntities(p.args)
    /\ p.args[2].variable_type = "Numeric"
    /\ p.outcome = NotDiscrete

\* The kinds the contracts of cls declare at argument position i.
DeclaredAt(cls, i) ==
    {input_types(cls)[k][i] :
        k \in {k \in 1..Len(input_types(cls)) : i <= Len(input_types(cls)[k])}}

\* Two kinds neither of which is a subtype of the other.
DisjointKinds(k, d) == ~issubclass(k, d) /\ ~issubclass(d, k)

SatisfiesAt(cls, f, i) == \E d \in DeclaredAt(cls, i) : issubclass(f.variable_type, d)

DisjointAt(cls, f, i) ==
    /\ DeclaredAt(cls, i) # {}
    /\ \A d \in DeclaredAt(cls, i) : DisjointKinds(f.variable_type, d)

KindErrors == {TypeContractViolation, NotDiscrete}

C8_GroupDiscrete ==
    (Attempted(p) /\ p.cls = "TimeSincePrevious") =>
        IF p.args[2].variable_type \in DiscreteKinds
        THEN p.outcome # NotDiscrete
        ELSE p.outcome = NotDiscrete /\ ~Built(p)

C8_Witness ==
    /\ p.cls = "TimeSincePrevious"
    /\ p.args[2].variable_type = "Timedelta"
    /\ p.outcome = NotDiscrete

\* C10 as stated: the two unit base classes cannot be constructed, and every
\* concrete unit class constructs from a feature of the inherited input kind.
C10_Claim ==
    Attempted(p) =>
        /\ p.cls \in UnitBases => ~Built(p)
        /\ (/\ p.cls \in DatetimeUnits \cup TimedeltaUnits
            /\ Len(p.args) = 1
            /\ SatisfiesAt(BaseClass(p.cls), p.args[1], 1)) =>
               /\ Built(p)
               /\ input_types(p.cls) = input_types(BaseClass(p.cls))
               /\ return_type(p.cls) = return_type(BaseClass(p.cls))

\* q is built directly on p.
DerivedFromP == \E i \in 1..Len(q.base_features) : q.base_features[i] = FeatureOf(p)

AnyExpanding(fs) == \E i \in 1..Len(fs) : fs[i].expanding

\* C9: a constructed primitive is expanding exactly when one of its base
\* features is; so a primitive built on an expanding one, or on one built on
\* an expanding column, is expanding.
C9_Expanding ==
    /\ Built(p) => (p.expanding <=> AnyExpanding(p.args))
    /\ Built(q) => (q.expanding <=> AnyExpanding(q.args))
    /\ (Built(p) /\ Built(q) /\ DerivedFromP) =>
           /\ p.expanding => q.expanding
           /\ AnyExpanding(p.args) => q.expanding

C9_Witness ==
    /\ Built(p)
    /\ Built(q)
    /\ DerivedFromP
    /\ AnyExpanding(p.args)
    /\ ~AnyExpanding(SelectSeq(q.args, LAMBDA f : f # FeatureOf(p)))
    /\ q.expanding

\* Two calls of get_name() on one instance give one answer.
NameDeterministic ==
    /\ \A i, j \in 1..Len(names.p) : names.p[i] = names.p[j]
    /\ \A i, j \in 1..Len(names.q) : names.q[i] = names.q[j]

\* p and q are instances of one concrete primitive type.
SameType == Built(p) /\ Built(q) /\ p.cls = q.cls /\ p.cls \notin UnitBases

\* Same ordered base features and same bound parameters.
SameApplication ==
    /\ p.base_features = q.base_features
    /\ p.list_of_outputs = q.list_of_outputs

\* Some base feature differs, and base features that differ differ in name.
DifferInBase ==
    /\ Len(p.base_features) = Len(q.base_features)
    /\ \E i \in 1..Len(p.base_features) : p.base_features[i] # q.base_features[i]
    /\ \A i \in 1..Len(p.base_features) :
           p.base_features[i] # q.base_features[i] =>
               p.base_features[i].name # q.base_features[i].name

Called(cls) == res.outcome # "none" /\ res.cls = cls

\* The reference time of the recorded call: the one supplied, or the wall
\* clock at the call.
ReferenceTime == IF res.b = <<>> THEN WallClock(res.at) ELSE res.b[1]

\* C4 as stated: a TimeSince or DaysSince function called without a reference
\* time completes and measures from the wall clock at the call; called with
\* one, it measures from that (DaysSince in whole days).
C4_Claim ==
    (Called("TimeSince") \/ Called("DaysSince")) =>
        /\ res.outcome = "ok"
        /\ Len(res.value) = Len(res.a)
        /\ \A i \in 1..Len(res.a) :
               res.value[i] = IF res.cls = "TimeSince"
                              THEN <<ReferenceTime - res.a[i][1]>>
                              ELSE <<(ReferenceTime - res.a[i][1]) \div 86400000, 1>>

\* The rows before row i that carry row i's grouping key.
EarlierInGroup(i) == {j \in 1..(i - 1) : res.b[j] = res.b[i]}

Latest(S) == CHOOSE j \in S : \A k \in S : k <= j

\* a[i] - a[j], missing when either is; in seconds for TimeSincePrevious.
RowDifference(i, j) ==
    IF res.a[i] = NaN \/ res.a[j] = NaN THEN NaN
    ELSE IF res.cls = "Diff" THEN <<res.a[i][1] - res.a[j][1]>>
    ELSE Frac(res.a[i][1] - res.a[j][1], 1000)

\* C5: the function of Diff and of TimeSincePrevious returns one entry per row,
\* in row order: the missing value for the first row of each group, and for
\* any other row its value minus the value of the nearest earlier row of its
\* group (in seconds for TimeSincePrevious).
C5_GroupedDiff ==
    (Called("Diff") \/ Called("TimeSincePrevious")) =>
        /\ res.outcome = "ok"
        /\ Len(res.value) = Len(res.a)
        /\ \A i \in 1..Len(res.a) :
               IF EarlierInGroup(i) = {}
               THEN res.value[i] = NaN
               ELSE res.value[i] = RowDifference(i, Latest(EarlierInGroup(i)))

C5_Witness ==
    /\ Called("TimeSincePrevious")
    /\ Len(res.a) = 3
    /\ res.b = <<1, 2, 1>>
    /\ res.value = <<NaN, NaN, <<3, 2>> >>

\* What C6 says a Timedelta unit function returns for a duration of ms
\* milliseconds.
UnitCount(cls, ms) ==
    CASE cls = "Seconds" -> Frac(ms, 1000)
      [] cls = "Minutes" -> Frac(ms, 60000)
      [] cls = "Hours" -> Frac(ms, 3600000)
      [] cls = "Days" -> <<ms \div 86400000, 1>>
      [] cls = "Weeks" -> Frac(ms \div 86400000, 7)
      [] OTHER -> Frac(ms \div 86400000, 365)

\* C6 as stated: for every duration, of a day or more too, Seconds is the
\* total length in seconds, Minutes and Hours that total over 60 and 3600,
\* Days the length in days, Weeks and Years the day count over 7 and 365.
C6_Claim ==
    (res.outcome # "none" /\ res.cls \in TimedeltaUnits \ {"Months"}) =>
        /\ res.outcome = "ok"
        /\ Len(res.value) = Len(res.a)
        /\ \A i \in 1..Len(res.a) : res.value[i] = UnitCount(res.cls, res.a[i][1])

\* Membership of each array value in a list.
MemberOf(array, items) ==
    [i \in 1..Len(array) |-> \E k \in 1..Len(items) : <<items[k]>> = array[i]]

====
